---- MODULE Spec2Model ----
(***************************************************************************)
(* Model of src/app.py: the transcription pipeline (transcribe), the       *)
(* two-tier downloader (download_youtube_audio), the engine cache          *)
(* (get_model), and the subtitle formatter (build_srt, format_timestamp).  *)
(*                                                                         *)
(* Strings are sequences of one-character strings.  A fixed phrase of a    *)
(* diagnostic (a literal of the source) is one symbol of such a sequence.  *)
(***************************************************************************)
EXTENDS Integers, Sequences, FiniteSets, TLC

\* ------------------------------------------------------------------------
\* Bounds of the model
\* ------------------------------------------------------------------------
MaxSegs == 2
MaxSrtSegs == 2
MaxRequests == 3
NumThreads == 3

\* ------------------------------------------------------------------------
\* Python string helpers
\* ------------------------------------------------------------------------
\* str.strip() removes these from both ends
Whitespace == {" ", "\n"}

RECURSIVE lstrip(_)
lstrip(s) == IF s # <<>> /\ Head(s) \in Whitespace THEN lstrip(Tail(s)) ELSE s

RECURSIVE rstrip(_)
rstrip(s) ==
    IF s # <<>> /\ s[Len(s)] \in Whitespace
    THEN rstrip(SubSeq(s, 1, Len(s) - 1))
    ELSE s

strip(s) == rstrip(lstrip(s))

\* sep.join(xs)
RECURSIVE join(_, _)
join(sep, xs) ==
    IF xs = <<>> THEN <<>>
    ELSE IF Len(xs) = 1 THEN xs[1]
    ELSE xs[1] \o sep \o join(sep, Tail(xs))

DigitChar(d) == <<"0", "1", "2", "3", "4", "5", "6", "7", "8", "9">>[d + 1]

\* str(n) for n >= 0
RECURSIVE str_int(_)
str_int(n) ==
    IF n < 10 THEN <<DigitChar(n)>>
    ELSE str_int(n \div 10) \o <<DigitChar(n % 10)>>

\* f"{n:0wd}": at least w digits, zero padded on the left
RECURSIVE zero_pad(_, _)
zero_pad(s, w) == IF Len(s) >= w THEN s ELSE zero_pad(<<"0">> \o s, w)

\* ------------------------------------------------------------------------
\* format_timestamp
\* ------------------------------------------------------------------------
\* A timestamp of a segment is NoTime (Python None) or the value of
\* seconds * 1000 in half-milliseconds (2401 is 1200.5 ms).
NoTime == -1

\* int(round(x)) of Python 3: halves go to the even neighbour
py_round_half(h) ==
    IF h % 2 = 0 THEN h \div 2
    ELSE IF ((h - 1) \div 2) % 2 = 0 THEN (h - 1) \div 2
    ELSE (h + 1) \div 2

format_timestamp(seconds) ==
    LET s0      == IF seconds = NoTime THEN 0 ELSE seconds
        ms0     == py_round_half(s0)
        hours   == ms0 \div 3600000
        ms1     == ms0 % 3600000
        minutes == ms1 \div 60000
        ms2     == ms1 % 60000
        secs    == ms2 \div 1000
        ms3     == ms2 % 1000
    IN  zero_pad(str_int(hours), 2) \o <<":">> \o
        zero_pad(str_int(minutes), 2) \o <<":">> \o
        zero_pad(str_int(secs), 2) \o <<",">> \o
        zero_pad(str_int(ms3), 3)

\* ------------------------------------------------------------------------
\* build_srt
\* ------------------------------------------------------------------------
Arrow == <<" ", "-", "-", ">", " ">>

\* the block numbered as enumerate numbers without start=1
srt_block_from_zero(i, seg) ==
    str_int(i - 1) \o <<"\n">> \o
    format_timestamp(seg.start) \o Arrow \o format_timestamp(seg.end) \o <<"\n">> \o
    strip(seg.text) \o <<"\n">>

\* the f-string of one block, i counted from 1
srt_block(i, seg) ==
    str_int(i) \o <<"\n">> \o
    format_timestamp(seg.start) \o Arrow \o format_timestamp(seg.end) \o <<"\n">> \o
    strip(seg.text) \o <<"\n">>

srt_blocks(segs) == [i \in 1..Len(segs) |-> srt_block(i, segs[i])]

build_srt(segs) == strip(join(<<"\n">>, srt_blocks(segs))) \o <<"\n">>

\* ------------------------------------------------------------------------
\* Values of the model
\* ------------------------------------------------------------------------
\* Python None where a path is expected: paths are non-empty sequences
None == <<>>

\* keys over MODEL_OPTIONS x DEVICE_OPTIONS x COMPUTE_TYPE_OPTIONS
EngineKeys == { <<"tiny", "cpu", "int8">>, <<"small", "cuda", "float16">> }

\* audio_file: None, a plain path string, or an upload object with .name
\* (name is the .name attribute, None when there is none)
NoFile == [kind |-> "none", name |-> None, value |-> None]
AudioFiles ==
    { NoFile,
      [kind |-> "str", name |-> None, value |-> <<"in", "wav">>],
      [kind |-> "obj", name |-> <<"upload", "mp3">>, value |-> <<"<File object>">>] }

Urls == { <<>>, <<" ">>, <<" ", "u">> }

\* literals of the diagnostics (lines 160, 171, 177, 190, 93, 120)
MSG_NO_INPUT == <<"please upload a file or enter a YouTube link">>
MSG_YT_FAIL == <<"YouTube download failed:", "\n">>
MSG_MODEL_FAIL == <<"loading the model failed:">>
MSG_INFER_FAIL == <<"error during transcription:">>
MSG_NO_FILE == <<"yt-dlp reported success but no downloaded file was found">>
E_OS == <<"OSError">>
E_CTOR == <<"ValueError">>
E_INFER == <<"InvalidDataError">>

FMT_AUDIO == "bestaudio[ext=m4a]/bestaudio/best"
FMT_BEST == "best"

\* what one run of the download tool can do: exit code, stderr, and the
\* files it leaves in the output directory (names relative to tmpdir)
Stem(fmt) == IF fmt = FMT_AUDIO THEN <<"t", "m4a">> ELSE <<"t", "mp4">>

YtOutcomes(fmt) ==
    { [rc |-> 0, stderr |-> <<>>, files |-> {Stem(fmt)}],
      [rc |-> 0, stderr |-> <<>>, files |-> {}],
      [rc |-> 2, stderr |-> <<"4", "0", "3", "\n">>, files |-> {}],
      [rc |-> 1, stderr |-> <<"n", "e", "t">>, files |-> {Stem(fmt) \o <<"part">>}],
      [rc |-> 1, stderr |-> <<"n", "e", "t">>,
       files |-> {Stem(fmt) \o <<"part">>, Stem(fmt) \o <<"ytdl">>}] }

Texts == { <<>>, <<" ">>, <<" ", "a">>, <<"b", "\n">>, <<"a", "\n", "b">> }

RECURSIVE SeqsUpTo(_, _)
SeqsUpTo(S, n) ==
    IF n = 0 THEN { <<>> }
    ELSE LET shorter == SeqsUpTo(S, n - 1)
         IN  shorter \cup { Append(q, x) : q \in shorter, x \in S }

\* what the engine can yield for one request
EngineSegments == [start : {0}, end : {2401}, text : Texts]
EngineOutputs == SeqsUpTo(EngineSegments, MaxSegs)

Ev(stage, op, ok) == [stage |-> stage, op |-> op, ok |-> ok]

\* ------------------------------------------------------------------------
\* State
\* ------------------------------------------------------------------------
VARIABLES
    MODEL_CACHE,   \* key -> engine instance (line 12)
    engines,       \* number of engine instances constructed so far
    ctorCalls,     \* key -> number of times WhisperModel(...) was called
    built,         \* key -> set of instances constructed for the key
    returned,      \* key -> set of instances get_model has returned
    nreq,          \* number of transcribe calls started
    pc,            \* position of the running transcribe call
    req,           \* its arguments
    tmpdir,        \* download directory: [exists, files]
    errors,        \* download_youtube_audio's errors list
    ytCalls,       \* the runs of the download tool in this call
    dl_error,      \* what download_youtube_audio raised, or None
    audio_path,
    model,
    inferArg,      \* the path handed to model.transcribe
    yielded,       \* everything the engine's segment sequence holds
    segments,      \* what the lazy segment sequence still holds
    seg_list,
    lines,
    out_dir,       \* [exists, files]: files holds [name, content] records
    result,        \* the returned triple
    trace,         \* the operations of this call, in order
    threads,       \* concurrent get_model callers
    lastWritten,   \* key -> the instance of the latest store into MODEL_CACHE
    segsIn, srtOut, srtDone   \* build_srt applied to an input

cacheVars == <<MODEL_CACHE, engines, ctorCalls, built, returned>>
callVars == <<nreq, pc, req, tmpdir, errors, ytCalls, dl_error, audio_path, model,
              inferArg, yielded, segments, seg_list, lines, out_dir, result, trace>>
concVars == <<threads, lastWritten>>
srtVars == <<segsIn, srtOut, srtDone>>
vars == <<cacheVars, callVars, concVars, srtVars>>

NoReq == [audio_file |-> NoFile, youtube_url |-> <<>>, key |-> <<>>]
NoResult == [text |-> <<>>, txt |-> None, srt |-> None]
NoDir == [exists |-> FALSE, files |-> {}]
NoOut == [exists |-> FALSE, files |-> {}]
EmptyMap == [k \in {} |-> 0]

InitCache ==
    /\ MODEL_CACHE = EmptyMap
    /\ engines = 0
    /\ ctorCalls = [k \in EngineKeys |-> 0]
    /\ built = [k \in EngineKeys |-> {}]
    /\ returned = [k \in EngineKeys |-> {}]

InitCall ==
    /\ nreq = 0
    /\ pc = "idle"
    /\ req = NoReq
    /\ tmpdir = NoDir
    /\ errors = <<>>
    /\ ytCalls = <<>>
    /\ dl_error = None
    /\ audio_path = None
    /\ model = 0
    /\ inferArg = None
    /\ yielded = <<>>
    /\ segments = <<>>
    /\ seg_list = <<>>
    /\ lines = <<>>
    /\ out_dir = NoOut
    /\ result = NoResult
    /\ trace = <<>>

InitConc ==
    /\ threads = [t \in 1..NumThreads |-> [pc |-> "idle", key |-> <<>>, new |-> 0,
                                           ret |-> 0, late |-> FALSE]]
    /\ lastWritten = EmptyMap

InitSrt ==
    /\ segsIn = <<>>
    /\ srtOut = <<>>
    /\ srtDone = FALSE

\* ------------------------------------------------------------------------
\* get_model (lines 44-55)
\* ------------------------------------------------------------------------
\* line 49 always taking the miss branch
CacheMiss_always(cache, key) == TRUE

\* line 49: key not in MODEL_CACHE
CacheMiss(cache, key) == key \notin DOMAIN cache

\* line 50 as MODEL_CACHE.setdefault(key, engine)
CacheStore_setdefault(cache, key, engine) ==
    [k \in DOMAIN cache \cup {key} |-> IF k \in DOMAIN cache THEN cache[k] ELSE engine]

\* line 50: MODEL_CACHE[key] = engine
CacheStore(cache, key, engine) ==
    [k \in DOMAIN cache \cup {key} |-> IF k = key THEN engine ELSE cache[k]]

\* ------------------------------------------------------------------------
\* transcribe (lines 143-213), one call at a time
\* ------------------------------------------------------------------------
\* line 159 without the .strip() of the URL
NoInput_unstripped(r) == r.audio_file.kind = "none" /\ r.youtube_url = <<>>

\* line 159
NoInput(r) == r.audio_file.kind = "none" /\ strip(r.youtube_url) = <<>>

\* line 163 giving way to a URL
HasFile_unless_url(r) == r.audio_file.kind # "none" /\ strip(r.youtube_url) = <<>>

\* line 163
HasFile(r) == r.audio_file.kind # "none"

\* line 165: getattr(audio_file, "name", None) or audio_file
local_path(f) == IF f.name # None THEN f.name ELSE f.value

Failure(text) == [text |-> text, txt |-> None, srt |-> None]

\* the caller (run_button.click, lines 306-319) starts a call
Submit(f, u, k) ==
    /\ pc = "idle"
    /\ nreq < MaxRequests
    /\ nreq' = nreq + 1
    /\ req' = [audio_file |-> f, youtube_url |-> u, key |-> k]
    /\ pc' = "validate"
    /\ UNCHANGED <<tmpdir, errors, ytCalls, dl_error, audio_path, model, inferArg,
                   yielded, segments, seg_list, lines, out_dir, result, trace>>
    /\ UNCHANGED <<cacheVars, concVars, srtVars>>

\* lines 159-160
RejectNoInput ==
    /\ pc = "validate"
    /\ NoInput(req)
    /\ result' = Failure(MSG_NO_INPUT)
    /\ pc' = "returned"
    /\ UNCHANGED <<nreq, req, tmpdir, errors, ytCalls, dl_error, audio_path, model,
                   inferArg, yielded, segments, seg_list, lines, out_dir, trace>>
    /\ UNCHANGED <<cacheVars, concVars, srtVars>>

\* lines 163-165
UseLocalFile ==
    /\ pc = "validate"
    /\ ~NoInput(req)
    /\ HasFile(req)
    /\ audio_path' = local_path(req.audio_file)
    /\ trace' = Append(trace, Ev(1, "local_path", TRUE))
    /\ pc' = "get_model"
    /\ UNCHANGED <<nreq, req, tmpdir, errors, ytCalls, dl_error, model, inferArg,
                   yielded, segments, seg_list, lines, out_dir, result>>
    /\ UNCHANGED <<cacheVars, concVars, srtVars>>

\* ------------------------------------------------------------------------
\* download_youtube_audio (lines 58-124), called at line 168
\* ------------------------------------------------------------------------
\* lines 91-95: the message of the RuntimeError of a failed run
yt_error(o) ==
    <<"yt-dlp failed (exit code ">> \o str_int(o.rc) \o <<"):", "\n">> \o strip(o.stderr)

\* lines 169-171 without the return
DownloadFailed_goes_on(e, ev) ==
    /\ dl_error' = e
    /\ result' = Failure(MSG_YT_FAIL \o e)
    /\ trace' = Append(trace, ev)
    /\ pc' = "get_model"

\* lines 169-171: the exception leaves download_youtube_audio and is caught
DownloadFailed(e, ev) ==
    /\ dl_error' = e
    /\ result' = Failure(MSG_YT_FAIL \o e)
    /\ trace' = Append(trace, ev)
    /\ pc' = "returned"

\* line 67: tempfile.mkdtemp
StartDownload ==
    /\ pc = "validate"
    /\ ~NoInput(req)
    /\ ~HasFile(req)
    /\ \/ /\ tmpdir' = [exists |-> TRUE, files |-> {}]
          /\ trace' = Append(trace, Ev(1, "mkdtemp_yt", TRUE))
          /\ pc' = "tier1"
          /\ UNCHANGED <<dl_error, result>>
       \/ /\ DownloadFailed(E_OS, Ev(1, "mkdtemp_yt", FALSE))
          /\ UNCHANGED tmpdir
    /\ UNCHANGED <<nreq, req, errors, ytCalls, audio_path, model, inferArg,
                   yielded, segments, seg_list, lines, out_dir>>
    /\ UNCHANGED <<cacheVars, concVars, srtVars>>

\* one run of run_yt_dlp(fmt) (lines 70-95) with outcome o
RunYtDlp(fmt, o) ==
    /\ ytCalls' = Append(ytCalls, [fmt |-> fmt, url |-> strip(req.youtube_url),
                                    rc |-> o.rc, stderr |-> o.stderr, files |-> o.files])
    /\ tmpdir' = [tmpdir EXCEPT !.files = @ \cup o.files]

\* lines 100-103
Tier1(o) ==
    /\ pc = "tier1"
    /\ RunYtDlp(FMT_AUDIO, o)
    /\ trace' = Append(trace, Ev(1, "yt_dlp_1", TRUE))
    /\ IF o.rc # 0
       THEN /\ errors' = Append(errors, yt_error(o))
            /\ pc' = "tier2"
       ELSE /\ errors' = errors
            /\ pc' = "scan"
    /\ UNCHANGED <<nreq, req, dl_error, audio_path, model, inferArg,
                   yielded, segments, seg_list, lines, out_dir, result>>
    /\ UNCHANGED <<cacheVars, concVars, srtVars>>

\* lines 106-111
Tier2(o) ==
    /\ pc = "tier2"
    /\ RunYtDlp(FMT_BEST, o)
    /\ IF o.rc # 0
       THEN /\ errors' = Append(errors, yt_error(o))
            /\ DownloadFailed(join(<<"\n", "\n">>, errors'), Ev(1, "yt_dlp_2", FALSE))
       ELSE /\ errors' = errors
            /\ trace' = Append(trace, Ev(1, "yt_dlp_2", TRUE))
            /\ pc' = "scan"
            /\ UNCHANGED <<dl_error, result>>
    /\ UNCHANGED <<nreq, req, audio_path, model, inferArg,
                   yielded, segments, seg_list, lines, out_dir>>
    /\ UNCHANGED <<cacheVars, concVars, srtVars>>

\* line 116: not f.endswith(".part") and os.path.isfile(f); every entry of
\* tmpdir is a regular file
Downloaded(dir) == { f \in dir.files : f[Len(f)] # "part" }

\* lines 114-124: glob lists the directory in no particular order, so any
\* eligible file can be files[0]
Scan ==
    /\ pc = "scan"
    /\ IF Downloaded(tmpdir) = {}
       THEN /\ DownloadFailed(MSG_NO_FILE, Ev(1, "glob", FALSE))
            /\ UNCHANGED audio_path
       ELSE /\ \E f \in Downloaded(tmpdir) : audio_path' = <<"yt_audio_">> \o f
            /\ trace' = Append(trace, Ev(1, "glob", TRUE))
            /\ pc' = "get_model"
            /\ UNCHANGED <<dl_error, result>>
    /\ UNCHANGED <<nreq, req, tmpdir, errors, ytCalls, model, inferArg,
                   yielded, segments, seg_list, lines, out_dir>>
    /\ UNCHANGED <<cacheVars, concVars, srtVars>>

\* ------------------------------------------------------------------------
\* transcribe, lines 173-213
\* ------------------------------------------------------------------------
\* lines 174-177 with get_model's hit path (lines 49, 55)
GetModelHit ==
    /\ pc = "get_model"
    /\ ~CacheMiss(MODEL_CACHE, req.key)
    /\ model' = MODEL_CACHE[req.key]
    /\ returned' = [returned EXCEPT ![req.key] = @ \cup {model'}]
    /\ trace' = Append(trace, Ev(2, "get_model", TRUE))
    /\ pc' = "infer"
    /\ UNCHANGED <<MODEL_CACHE, engines, ctorCalls, built>>
    /\ UNCHANGED <<nreq, req, tmpdir, errors, ytCalls, dl_error, audio_path, inferArg,
                   yielded, segments, seg_list, lines, out_dir, result>>
    /\ UNCHANGED <<concVars, srtVars>>

\* get_model's miss path (lines 49-55), the constructor returning
GetModelCreate ==
    /\ pc = "get_model"
    /\ CacheMiss(MODEL_CACHE, req.key)
    /\ ctorCalls' = [ctorCalls EXCEPT ![req.key] = @ + 1]
    /\ engines' = engines + 1
    /\ built' = [built EXCEPT ![req.key] = @ \cup {engines'}]
    /\ MODEL_CACHE' = CacheStore(MODEL_CACHE, req.key, engines')
    /\ model' = MODEL_CACHE'[req.key]
    /\ returned' = [returned EXCEPT ![req.key] = @ \cup {model'}]
    /\ trace' = Append(trace, Ev(2, "get_model", TRUE))
    /\ pc' = "infer"
    /\ UNCHANGED <<nreq, req, tmpdir, errors, ytCalls, dl_error, audio_path, inferArg,
                   yielded, segments, seg_list, lines, out_dir, result>>
    /\ UNCHANGED <<concVars, srtVars>>

\* get_model's miss path, the constructor raising (lines 176-177)
GetModelFail ==
    /\ pc = "get_model"
    /\ CacheMiss(MODEL_CACHE, req.key)
    /\ ctorCalls' = [ctorCalls EXCEPT ![req.key] = @ + 1]
    /\ result' = Failure(MSG_MODEL_FAIL \o E_CTOR)
    /\ trace' = Append(trace, Ev(2, "get_model", FALSE))
    /\ pc' = "returned"
    /\ UNCHANGED <<MODEL_CACHE, engines, built, returned>>
    /\ UNCHANGED <<nreq, req, tmpdir, errors, ytCalls, dl_error, audio_path, model,
                   inferArg, yielded, segments, seg_list, lines, out_dir>>
    /\ UNCHANGED <<concVars, srtVars>>

\* lines 182-188: model.transcribe returns a lazy segment sequence
InferOk(segs) ==
    /\ pc = "infer"
    /\ inferArg' = audio_path
    /\ yielded' = segs
    /\ segments' = segs
    /\ trace' = Append(trace, Ev(3, "model.transcribe", TRUE))
    /\ pc' = "consume"
    /\ UNCHANGED <<nreq, req, tmpdir, errors, ytCalls, dl_error, audio_path, model,
                   seg_list, lines, out_dir, result>>
    /\ UNCHANGED <<cacheVars, concVars, srtVars>>

\* lines 189-190
InferFail ==
    /\ pc = "infer"
    /\ inferArg' = audio_path
    /\ result' = Failure(MSG_INFER_FAIL \o E_INFER)
    /\ trace' = Append(trace, Ev(3, "model.transcribe", FALSE))
    /\ pc' = "returned"
    /\ UNCHANGED <<nreq, req, tmpdir, errors, ytCalls, dl_error, audio_path, model,
                   yielded, segments, seg_list, lines, out_dir>>
    /\ UNCHANGED <<cacheVars, concVars, srtVars>>

\* lines 195-197 appending seg.text as it is
NextSegment_unstripped ==
    /\ pc = "consume"
    /\ segments # <<>>
    /\ lines' = Append(lines, Head(segments).text)
    /\ seg_list' = Append(seg_list, Head(segments))
    /\ segments' = Tail(segments)
    /\ trace' = Append(trace, Ev(4, "next_segment", TRUE))
    /\ UNCHANGED <<nreq, pc, req, tmpdir, errors, ytCalls, dl_error, audio_path, model,
                   inferArg, yielded, out_dir, result>>
    /\ UNCHANGED <<cacheVars, concVars, srtVars>>

\* lines 195-197: one iteration of the loop
NextSegment ==
    /\ pc = "consume"
    /\ segments # <<>>
    /\ lines' = Append(lines, strip(Head(segments).text))
    /\ seg_list' = Append(seg_list, Head(segments))
    /\ segments' = Tail(segments)
    /\ trace' = Append(trace, Ev(4, "next_segment", TRUE))
    /\ UNCHANGED <<nreq, pc, req, tmpdir, errors, ytCalls, dl_error, audio_path, model,
                   inferArg, yielded, out_dir, result>>
    /\ UNCHANGED <<cacheVars, concVars, srtVars>>

\* line 195: the lazy sequence raises while it is iterated; no handler
\* encloses the loop, the exception leaves transcribe
SegmentsRaise ==
    /\ pc = "consume"
    /\ trace' = Append(trace, Ev(4, "next_segment", FALSE))
    /\ pc' = "raised"
    /\ UNCHANGED <<nreq, req, tmpdir, errors, ytCalls, dl_error, audio_path, model,
                   inferArg, yielded, segments, seg_list, lines, out_dir, result>>
    /\ UNCHANGED <<cacheVars, concVars, srtVars>>

\* line 199
transcript_text == strip(join(<<"\n">>, lines))

\* line 200
srt_text == build_srt(seg_list)

\* lines 204-205
txt_path == <<"transcript_">> \o str_int(nreq) \o <<"/", "transcript", "txt">>
srt_path == <<"transcript_">> \o str_int(nreq) \o <<"/", "subtitles", "srt">>

\* line 195 (the sequence is exhausted) to line 203: tempfile.mkdtemp
MakeOutDir ==
    /\ pc = "consume"
    /\ segments = <<>>
    /\ \/ /\ out_dir' = [exists |-> TRUE, files |-> {}]
          /\ trace' = Append(trace, Ev(5, "mkdtemp_out", TRUE))
          /\ pc' = "write_txt"
       \/ /\ trace' = Append(trace, Ev(5, "mkdtemp_out", FALSE))
          /\ pc' = "raised"
          /\ UNCHANGED out_dir
    /\ UNCHANGED <<nreq, req, tmpdir, errors, ytCalls, dl_error, audio_path, model,
                   inferArg, yielded, segments, seg_list, lines, result>>
    /\ UNCHANGED <<cacheVars, concVars, srtVars>>

\* lines 207-208
WriteTxt ==
    /\ pc = "write_txt"
    /\ \/ /\ out_dir' = [out_dir EXCEPT !.files =
                            @ \cup {[name |-> txt_path, content |-> transcript_text]}]
          /\ trace' = Append(trace, Ev(5, "write_txt", TRUE))
          /\ pc' = "write_srt"
       \/ /\ trace' = Append(trace, Ev(5, "write_txt", FALSE))
          /\ pc' = "raised"
          /\ UNCHANGED out_dir
    /\ UNCHANGED <<nreq, req, tmpdir, errors, ytCalls, dl_error, audio_path, model,
                   inferArg, yielded, segments, seg_list, lines, result>>
    /\ UNCHANGED <<cacheVars, concVars, srtVars>>

\* lines 210-213
WriteSrt ==
    /\ pc = "write_srt"
    /\ \/ /\ out_dir' = [out_dir EXCEPT !.files =
                            @ \cup {[name |-> srt_path, content |-> srt_text]}]
          /\ trace' = Append(trace, Ev(5, "write_srt", TRUE))
          /\ result' = [text |-> transcript_text, txt |-> txt_path, srt |-> srt_path]
          /\ pc' = "returned"
       \/ /\ trace' = Append(trace, Ev(5, "write_srt", FALSE))
          /\ pc' = "raised"
          /\ UNCHANGED <<out_dir, result>>
    /\ UNCHANGED <<nreq, req, tmpdir, errors, ytCalls, dl_error, audio_path, model,
                   inferArg, yielded, segments, seg_list, lines>>
    /\ UNCHANGED <<cacheVars, concVars, srtVars>>

\* the call is over; its locals go away
CallEnds ==
    /\ pc \in {"returned", "raised"}
    /\ pc' = "idle"
    /\ req' = NoReq
    /\ tmpdir' = NoDir
    /\ errors' = <<>>
    /\ ytCalls' = <<>>
    /\ dl_error' = None
    /\ audio_path' = None
    /\ model' = 0
    /\ inferArg' = None
    /\ yielded' = <<>>
    /\ segments' = <<>>
    /\ seg_list' = <<>>
    /\ lines' = <<>>
    /\ out_dir' = NoOut
    /\ result' = NoResult
    /\ trace' = <<>>
    /\ UNCHANGED nreq
    /\ UNCHANGED <<cacheVars, concVars, srtVars>>

\* ------------------------------------------------------------------------
\* get_model called from several threads (lines 44-55, one statement a step)
\* ------------------------------------------------------------------------
\* no caller of key k is between its miss and its store
NoWriterPending(k) ==
    \A t \in 1..NumThreads :
        ~(threads[t].key = k /\ threads[t].pc \in {"construct", "store"})

\* a front-end worker enters get_model (line 48)
Call(t, k) ==
    /\ threads[t].pc = "idle"
    /\ threads' = [threads EXCEPT ![t] =
                      [pc |-> "check", key |-> k, new |-> 0, ret |-> 0,
                       late |-> k \in DOMAIN MODEL_CACHE /\ NoWriterPending(k)]]
    /\ UNCHANGED <<cacheVars, lastWritten, callVars, srtVars>>

\* line 49
Check(t) ==
    /\ threads[t].pc = "check"
    /\ threads' = [threads EXCEPT ![t].pc =
                      IF CacheMiss(MODEL_CACHE, threads[t].key) THEN "construct" ELSE "read"]
    /\ UNCHANGED <<cacheVars, lastWritten, callVars, srtVars>>

\* lines 50-54: WhisperModel(...) returns a new instance, or raises
Construct(t) ==
    /\ threads[t].pc = "construct"
    /\ ctorCalls' = [ctorCalls EXCEPT ![threads[t].key] = @ + 1]
    /\ \/ /\ engines' = engines + 1
          /\ built' = [built EXCEPT ![threads[t].key] = @ \cup {engines'}]
          /\ threads' = [threads EXCEPT ![t].pc = "store", ![t].new = engines']
       \/ /\ threads' = [threads EXCEPT ![t].pc = "raised"]
          /\ UNCHANGED <<engines, built>>
    /\ UNCHANGED <<MODEL_CACHE, returned, lastWritten, callVars, srtVars>>

\* line 50: the subscript assignment
Store(t) ==
    /\ threads[t].pc = "store"
    /\ MODEL_CACHE' = CacheStore(MODEL_CACHE, threads[t].key, threads[t].new)
    /\ lastWritten' = [k \in DOMAIN lastWritten \cup {threads[t].key} |->
                          IF k = threads[t].key THEN threads[t].new ELSE lastWritten[k]]
    /\ threads' = [threads EXCEPT ![t].pc = "read"]
    /\ UNCHANGED <<engines, ctorCalls, built, returned, callVars, srtVars>>

\* line 55
Read(t) ==
    /\ threads[t].pc = "read"
    /\ threads' = [threads EXCEPT ![t].pc = "done",
                                  ![t].ret = MODEL_CACHE[threads[t].key]]
    /\ returned' = [returned EXCEPT ![threads[t].key] = @ \cup {MODEL_CACHE[threads[t].key]}]
    /\ UNCHANGED <<MODEL_CACHE, engines, ctorCalls, built, lastWritten, callVars, srtVars>>

\* ------------------------------------------------------------------------
\* build_srt applied to an input
\* ------------------------------------------------------------------------
\* (start, end) of a segment, in half-milliseconds
SrtTimes == { <<NoTime, 2401>>, <<2400, 5003>>, <<7323001, 180000000>> }
SrtTexts == { <<>>, <<" ">>, <<" ", "a">>, <<"b", "\n">>, <<"a", "\n", "b">> }
SrtSegments == { [start |-> tm[1], end |-> tm[2], text |-> tx] : tm \in SrtTimes, tx \in SrtTexts }
SrtInputs == SeqsUpTo(SrtSegments, MaxSrtSegs)

RunBuildSrt ==
    /\ ~srtDone
    /\ srtOut' = build_srt(segsIn)
    /\ srtDone' = TRUE
    /\ UNCHANGED <<segsIn, cacheVars, callVars, concVars>>

\* ------------------------------------------------------------------------
\* Specifications
\* ------------------------------------------------------------------------
Init == InitCache /\ InitCall /\ InitConc /\ InitSrt

Next ==
    \/ \E f \in AudioFiles, u \in Urls, k \in EngineKeys : Submit(f, u, k)
    \/ RejectNoInput
    \/ UseLocalFile
    \/ StartDownload
    \/ \E o \in YtOutcomes(FMT_AUDIO) : Tier1(o)
    \/ \E o \in YtOutcomes(FMT_BEST) : Tier2(o)
    \/ Scan
    \/ GetModelHit
    \/ GetModelCreate
    \/ GetModelFail
    \/ \E segs \in EngineOutputs : InferOk(segs)
    \/ InferFail
    \/ NextSegment
    \/ SegmentsRaise
    \/ MakeOutDir
    \/ WriteTxt
    \/ WriteSrt
    \/ CallEnds

\* transcribe calls, one after the other
Spec == Init /\ [][Next]_vars

NextConc ==
    \E t \in 1..NumThreads :
        \/ \E k \in EngineKeys : Call(t, k)
        \/ Check(t)
        \/ Construct(t)
        \/ Store(t)
        \/ Read(t)

\* get_model calls of concurrent requests
SpecConc == Init /\ [][NextConc]_vars

InitFormat ==
    /\ InitCache /\ InitCall /\ InitConc
    /\ segsIn \in SrtInputs
    /\ srtOut = <<>>
    /\ srtDone = FALSE

NextFormat == RunBuildSrt

\* build_srt on every input within the bounds
SpecFormat == InitFormat /\ [][NextFormat]_vars

\* ------------------------------------------------------------------------
\* Properties
\* ------------------------------------------------------------------------
Returned == pc = "returned"
Succeeded == Returned /\ result.txt # None /\ result.srt # None
AllBlank(u) == \A i \in 1..Len(u) : u[i] \in Whitespace
NeitherGiven == req.audio_file = NoFile /\ AllBlank(req.youtube_url)

\* C1: no exception leaves transcribe: a call never ends by raising, whatever
\* stage fails.
C1_NeverThrows == pc # "raised"

\* C2: a returned result has both paths and a non-empty transcript_text, or
\* has neither path.
C2_TwoShapes ==
    Returned =>
        \/ result.txt # None /\ result.srt # None /\ result.text # <<>>
        \/ result.txt = None /\ result.srt = None

\* C3: with no file and a blank URL the call returns at once with a non-empty
\* diagnostic and no paths; the step touches nothing else: no download run, no
\* directory, no cache access, no inference.
C3_NoInputReturnsAtOnce ==
    [][ (pc = "validate" /\ NeitherGiven) =>
            /\ pc' = "returned"
            /\ result'.text # <<>> /\ result'.txt = None /\ result'.srt = None
            /\ UNCHANGED <<cacheVars, tmpdir, ytCalls, errors, audio_path, model,
                           inferArg, yielded, segments, out_dir, trace>> ]_vars

C3_Witness ==
    /\ Returned /\ NeitherGiven /\ req.youtube_url = <<" ">>
    /\ result = Failure(MSG_NO_INPUT)
    /\ trace = <<>>

\* the download has ended: it returned a path or raised
DownloadOver == Len(ytCalls) >= 1 /\ pc \notin {"tier1", "tier2", "scan"}
BothTiersError == dl_error \notin {None, MSG_NO_FILE, E_OS}
InTmpdir(files) == { <<"yt_audio_">> \o f : f \in files }

\* C4: tier 2 runs exactly when tier 1 exited non-zero; when tier 1 fails and
\* tier 2 succeeds the two-tier error is not raised and the path returned is a
\* file written by tier 2; the two-tier error is raised only when both tiers
\* failed and is tier 1's diagnostic followed by tier 2's.
C4_TwoTier ==
    /\ Len(ytCalls) >= 2 => ytCalls[1].rc # 0
    /\ (DownloadOver /\ ytCalls[1].rc # 0) => Len(ytCalls) = 2
    /\ (Len(ytCalls) = 2 /\ ytCalls[2].rc = 0) =>
           /\ ~BothTiersError
           /\ audio_path # None => audio_path \in InTmpdir(ytCalls[2].files)
    /\ BothTiersError =>
           /\ Len(ytCalls) = 2 /\ ytCalls[1].rc # 0 /\ ytCalls[2].rc # 0
           /\ dl_error = yt_error(ytCalls[1]) \o <<"\n", "\n">> \o yt_error(ytCalls[2])

\* the path of a provided file, read off the request
GivenPath == IF req.audio_file.kind = "obj" THEN req.audio_file.name ELSE req.audio_file.value

\* C7: with a local file the download tool never runs, the request is not
\* rejected, and the inference call gets the file's own path, whether or not a
\* URL came with it.
C7_LocalFileUnchanged ==
    req.audio_file # NoFile =>
        /\ ytCalls = <<>> /\ ~tmpdir.exists /\ dl_error = None
        /\ inferArg # None => inferArg = GivenPath
        /\ pc \notin {"validate", "idle"} => audio_path = GivenPath
        /\ Returned => result # Failure(MSG_NO_INPUT)

C7_Witness ==
    /\ req.audio_file # NoFile /\ ~AllBlank(req.youtube_url)
    /\ pc = "consume" /\ inferArg = GivenPath /\ ytCalls = <<>>

SameInstancePerKey ==
    /\ \A k \in EngineKeys : Cardinality(returned[k]) <= 1
    /\ \A k1, k2 \in EngineKeys : k1 # k2 => returned[k1] \cap returned[k2] = {}

EntriesKept ==
    \A k \in DOMAIN MODEL_CACHE : k \in DOMAIN MODEL_CACHE' /\ MODEL_CACHE'[k] = MODEL_CACHE[k]

\* C5 as stated: over calls that do not overlap, calls with one key return one
\* instance, the constructor runs at most once for a key, calls with different
\* keys return different instances, and no entry is removed or replaced.
C5_OneConstructionPerKey ==
    /\ [](SameInstancePerKey /\ \A k \in EngineKeys : ctorCalls[k] <= 1)
    /\ [][EntriesKept]_vars

\* C5 amended: the constructor returns an instance at most once for a key (a
\* constructor that raised stores nothing and is run again by the next call).
C5_OneInstancePerKey ==
    /\ [](SameInstancePerKey /\ \A k \in EngineKeys : Cardinality(built[k]) <= 1)
    /\ [][EntriesKept]_vars

\* the third call hit the entry of the first, the second built the other key
C5_Witness ==
    /\ nreq = 3 /\ pc = "infer"
    /\ DOMAIN MODEL_CACHE = EngineKeys
    /\ \A k \in EngineKeys : ctorCalls[k] = 1 /\ returned[k] = {MODEL_CACHE[k]}
    /\ model = MODEL_CACHE[req.key]

\* str.split("\n")
RECURSIVE split_lines(_)
split_lines(s) ==
    IF \A i \in 1..Len(s) : s[i] # "\n" THEN <<s>>
    ELSE LET n == CHOOSE i \in 1..Len(s) : s[i] = "\n" /\ \A j \in 1..(i - 1) : s[j] # "\n"
         IN  <<SubSeq(s, 1, n - 1)>> \o split_lines(SubSeq(s, n + 1, Len(s)))

Trimmed == [i \in 1..Len(yielded) |-> strip(yielded[i].text)]
TxtFile == { f.content : f \in { g \in out_dir.files : g.name = result.txt } }

\* C9 as stated: on success the transcript, returned and written, has one line
\* for each segment, line i being the trimmed text of segment i.
C9_OneLinePerSegment ==
    Succeeded =>
        /\ TxtFile = {result.text}
        /\ IF yielded = <<>> THEN result.text = <<>>
           ELSE split_lines(result.text) = Trimmed

\* C9 amended: on success the transcript, returned and written, is the trimmed
\* texts joined by line breaks and then trimmed as a whole; it has one line for
\* each segment when the first and the last trimmed text are non-empty and no
\* trimmed text holds a line break.
C9_TrimmedJoin ==
    Succeeded =>
        /\ TxtFile = {result.text}
        /\ result.text = strip(join(<<"\n">>, Trimmed))
        /\ ( /\ yielded # <<>>
             /\ Trimmed[1] # <<>> /\ Trimmed[Len(Trimmed)] # <<>>
             /\ \A i \in 1..Len(Trimmed) : split_lines(Trimmed[i]) = <<Trimmed[i]>> )
           => split_lines(result.text) = Trimmed

C9_Witness ==
    /\ Succeeded /\ Len(yielded) = 2
    /\ yielded[1].text = <<"b", "\n">> /\ yielded[2].text = <<" ", "a">>
    /\ result.text = <<"b", "\n", "a">>

Ops(op) == { i \in 1..Len(trace) : trace[i].op = op }
Done(op) == { i \in Ops(op) : trace[i].ok }
Before(i, S) == \E j \in S : j < i

\* C10: within a call the stages run in the order resolve (1), engine (2),
\* inference (3), materialize (4), write (5); every operation but the
\* iteration step happens at most once; nothing happens after a failed
\* operation; a stage starts only after the stage before it completed, the
\* output directory only after every yielded segment was consumed, once each.
C10_StagesInOrder ==
    /\ \A i, j \in 1..Len(trace) : i < j => trace[i].stage <= trace[j].stage
    /\ \A i, j \in 1..Len(trace) :
           (i < j /\ trace[i].op = trace[j].op) => trace[i].op = "next_segment"
    /\ \A i \in 1..Len(trace) : i < Len(trace) => trace[i].ok
    /\ \A i \in 1..Len(trace) :
           /\ trace[i].stage = 2 => Before(i, Done("local_path") \cup Done("glob"))
           /\ trace[i].stage = 3 => Before(i, Done("get_model"))
           /\ trace[i].stage = 4 => Before(i, Done("model.transcribe"))
           /\ trace[i].stage = 5 =>
                  /\ Cardinality(Done("next_segment")) = Len(yielded)
                  /\ Ops("next_segment") = Done("next_segment")
                  /\ segments = <<>> /\ seg_list = yielded
           /\ trace[i].op = "write_txt" => Before(i, Done("mkdtemp_out"))
           /\ trace[i].op = "write_srt" => Before(i, Done("write_txt"))
    /\ seg_list \o segments = yielded
    /\ Cardinality(Done("next_segment")) = Len(seg_list)
    /\ ytCalls # <<>> => Done("mkdtemp_yt") # {}
    /\ model # 0 => Done("get_model") # {}
    /\ inferArg # None => Ops("model.transcribe") # {}
    /\ out_dir.exists => Done("mkdtemp_out") # {}
    /\ out_dir.files # {} => Done("write_txt") # {}

C10_Witness ==
    /\ Succeeded
    /\ Len(ytCalls) = 2 /\ Len(yielded) = 2 /\ Len(trace) = 11
    /\ trace[3] = Ev(1, "yt_dlp_2", TRUE) /\ trace[11] = Ev(5, "write_srt", TRUE)

\* C6: with concurrent callers the cache holds, for a key, the instance of the
\* latest store, and a call that starts when the key is stored and no caller
\* of the key is between its miss and its store returns that instance.
C6_LastWriteWins ==
    /\ \A k \in DOMAIN MODEL_CACHE : MODEL_CACHE[k] = lastWritten[k]
    /\ \A t \in 1..NumThreads :
           (threads[t].pc = "done" /\ threads[t].late) =>
               threads[t].ret = lastWritten[threads[t].key]

\* two callers missed and constructed for one key, a third came afterwards
C6_Witness ==
    \E k \in EngineKeys : \E t1, t2, t3 \in 1..NumThreads :
        /\ ctorCalls[k] = 2 /\ Cardinality(built[k]) = 2
        /\ threads[t1].key = k /\ threads[t2].key = k /\ threads[t3].key = k
        /\ threads[t1].pc = "done" /\ threads[t2].pc = "done" /\ threads[t3].pc = "done"
        /\ threads[t1].new # 0 /\ threads[t2].new # 0 /\ threads[t1].new # threads[t2].new
        /\ threads[t3].late /\ threads[t3].ret = lastWritten[k]
        /\ MODEL_CACHE[k] = lastWritten[k]

\* the blocks i..Len(segs) as text: number, times, trimmed text, each on a
\* line, a blank line between two blocks
RECURSIVE BlocksFrom(_, _)
BlocksFrom(segs, i) ==
    IF i > Len(segs) THEN <<>>
    ELSE str_int(i) \o <<"\n">> \o
         format_timestamp(segs[i].start) \o Arrow \o format_timestamp(segs[i].end) \o <<"\n">> \o
         strip(segs[i].text) \o <<"\n">> \o
         (IF i < Len(segs) THEN <<"\n">> \o BlocksFrom(segs, i + 1) ELSE <<>>)

RECURSIVE DropFinalNewlines(_)
DropFinalNewlines(s) ==
    IF s # <<>> /\ s[Len(s)] = "\n" THEN DropFinalNewlines(SubSeq(s, 1, Len(s) - 1)) ELSE s

ArrowCount(s) == Cardinality({ i \in 1..(Len(s) - 4) : SubSeq(s, i, i + 4) = Arrow })

\* C8: for N >= 1 segments build_srt gives the N blocks numbered 1..N in
\* order, a blank line between two of them, ending in exactly one newline; for
\* no segment it gives a single newline.
C8_SrtBlocks ==
    srtDone =>
        IF segsIn = <<>> THEN srtOut = <<"\n">>
        ELSE /\ srtOut = DropFinalNewlines(BlocksFrom(segsIn, 1)) \o <<"\n">>
             /\ ArrowCount(srtOut) = Len(segsIn)
             /\ Len(srtOut) >= 2
             /\ srtOut[Len(srtOut)] = "\n" /\ srtOut[Len(srtOut) - 1] # "\n"

C8_Witness ==
    /\ srtDone /\ Len(segsIn) = 2
    /\ segsIn[1].text = <<>> /\ segsIn[2].text = <<" ">>
    /\ srtOut[1] = "1"

====
